---- MODULE Spec2Model ----
(***************************************************************************)
(* A model of package calmly (agext/calmly): the invocation wrapper Try,   *)
(* the Outcome record with its accessors, fluent setters and severity      *)
(* transitions, and the dispatch of an Outcome to a Logger.                *)
(*                                                                         *)
(* Go strings are TLA+ strings; the nil interface value is the record Nil. *)
(* Outcomes live in a heap (a sequence); a *Outcome is an index into it    *)
(* and NULL is the nil pointer.                                            *)
(***************************************************************************)
EXTENDS Integers, Sequences, FiniteSets, TLC

VARIABLES
    heap,      \* the Outcome objects the caller holds, by reference
    ml,        \* mockLogger.log, the text the logger has recorded
    panicnil,  \* the build's GODEBUG panicnil setting: recover() of panic(nil) is nil
    hist,      \* the calls made so far, each with its receiver, argument and result
    thr        \* the goroutines inside a method of a shared Outcome, by Outcome and method

vars == <<heap, ml, panicnil, hist, thr>>

(* ------------------------------ bounds -------------------------------- *)

MaxOps == 3
MaxOutcomes == 2
\* calls per run where a function is tried on its whole domain
MaxPure == 1
\* bytes of a captured stack where the trimming is tried on every capture
MaxCapture == 7

(* ------------------------- levels and codes --------------------------- *)

OK == 0
ERROR == 4
PANIC == 5
FATAL == 6

ERR_TRY_ARG == 0
ERR_TRY_PANIC == 1

levelName_NoFatal(l) ==
    CASE l = OK -> "OK"
      [] l = ERROR -> "ERROR"
      [] l = PANIC -> "PANIC"
      [] OTHER -> "?"

levelName(l) ==
    CASE l = OK -> "OK"
      [] l = ERROR -> "ERROR"
      [] l = PANIC -> "PANIC"
      [] l = FATAL -> "FATAL"
      [] OTHER -> "?"

(* ------------------------------ values -------------------------------- *)

NULL == 0

\* an interface value: its dynamic kind and its rendering
Nil == [kind |-> "nil", s |-> ""]
StrVal(s) == [kind |-> "string", s |-> s]
IntVal(s) == [kind |-> "int", s |-> s]
ErrVal(s) == [kind |-> "error", s |-> s]
PanicNilError == ErrVal("panic called with nil argument")

HasPrefix(s, p) == Len(s) >= Len(p) /\ SubSeq(s, 1, Len(p)) = p

\* fmt.Sprintf("%s", v)
SprintS(v) ==
    CASE v.kind = "string" -> v.s
      [] v.kind = "error" -> v.s
      [] v.kind = "int" -> "%!s(int=" \o v.s \o ")"
      [] OTHER -> "%!s(<nil>)"

HexDigit(d) ==
    CASE d = 0 -> "0" [] d = 1 -> "1" [] d = 2 -> "2" [] d = 3 -> "3"
      [] d = 4 -> "4" [] d = 5 -> "5" [] d = 6 -> "6" [] d = 7 -> "7"
      [] d = 8 -> "8" [] d = 9 -> "9" [] d = 10 -> "a" [] d = 11 -> "b"
      [] d = 12 -> "c" [] d = 13 -> "d" [] d = 14 -> "e" [] OTHER -> "f"

RECURSIVE HexDigits(_)
HexDigits(n) == IF n < 16 THEN HexDigit(n) ELSE HexDigits(n \div 16) \o HexDigit(n % 16)

RECURSIVE ZeroPad(_, _)
ZeroPad(s, w) == IF Len(s) >= w THEN s ELSE ZeroPad("0" \o s, w)

Sprintf04x_NoPad(c) == IF c < 0 THEN "-" \o HexDigits(0 - c) ELSE HexDigits(c)

\* fmt.Sprintf("%04x", c): the sign counts in the width
Sprintf04x(c) ==
    IF c < 0 THEN "-" \o ZeroPad(HexDigits(0 - c), 3) ELSE ZeroPad(HexDigits(c), 4)

(* ------------------------------ Outcome ------------------------------- *)

ZeroOutcome ==
    [val |-> Nil, err |-> Nil, level |-> 0, code |-> 0, text |-> "", info |-> <<>>]

Level(o) == o.level
Code(o) == o.code
Text(o) == o.text
Info(o) == o.info
Value(o) == o.val
ErrOf(o) == o.err
Result(o) == <<o.val, o.err>>

Error_IgnoresLevel(o) ==
    IF o.code # 0 THEN o.text \o " (code: 0x" \o Sprintf04x(o.code) \o ")"
    ELSE o.text

Error_OfErr(o) ==
    IF o.level = OK THEN o.err.s
    ELSE IF o.code # 0 THEN o.text \o " (code: 0x" \o Sprintf04x(o.code) \o ")"
    ELSE o.text

Error(o) ==
    IF o.level = OK THEN ""
    ELSE IF o.code # 0 THEN o.text \o " (code: 0x" \o Sprintf04x(o.code) \o ")"
    ELSE o.text

KeepCalm_Always(o) == [o EXCEPT !.level = ERROR]

KeepCalm_Noop(o) == o

KeepCalm(o) == IF o.level = PANIC THEN [o EXCEPT !.level = ERROR] ELSE o

Escalate_NotOK(o) == IF o.level # OK THEN [o EXCEPT !.level = FATAL] ELSE o

Escalate(o) == IF o.level = PANIC THEN [o EXCEPT !.level = FATAL] ELSE o

SetLevel_Any(o, l) == [o EXCEPT !.level = l]

SetLevel_Range(o, l) == IF l >= OK /\ l <= FATAL THEN [o EXCEPT !.level = l] ELSE o

SetLevel(o, l) == IF levelName(l) # "?" THEN [o EXCEPT !.level = l] ELSE o

SetCode_IfNonZero(o, c) == IF c # 0 THEN [o EXCEPT !.code = c] ELSE o

SetCode(o, c) == [o EXCEPT !.code = c]

SetText_IntoErr(o, t) == [o EXCEPT !.text = t, !.err = ErrVal(t)]

SetText(o, t) == [o EXCEPT !.text = t]

(* --------------------------- stack capture ---------------------------- *)

\* the loop over the captured buffer: j is the 0-based byte index, l the count of
\* newlines seen, p1 the start of the second line; the result is <<p1, p2>>
RECURSIVE ScanStack(_, _, _, _, _)
ScanStack(buffer, j, l, p1, calldepth) ==
    IF j >= Len(buffer) THEN <<p1, 0>>
    ELSE IF SubSeq(buffer, j + 1, j + 1) = "\n"
         THEN IF l = 0 THEN ScanStack(buffer, j + 1, l + 1, j + 1, calldepth)
              ELSE IF l = calldepth THEN <<p1, j + 1>>
              ELSE ScanStack(buffer, j + 1, l + 1, p1, calldepth)
         ELSE ScanStack(buffer, j + 1, l, p1, calldepth)

TrimStack_Undoubled(buffer, calldepth) ==
    LET p == ScanStack(buffer, 0, 0, 0, calldepth)
    IN  IF p[2] > 0
        THEN SubSeq(buffer, 1, p[1]) \o SubSeq(buffer, p[2] + 1, Len(buffer))
        ELSE buffer

\* what replaces the line "debug.stack": buffer is what runtime.Stack wrote
TrimStack(buffer, calldepth) ==
    LET p == ScanStack(buffer, 0, 0, 0, calldepth * 2)
    IN  IF p[2] > 0
        THEN SubSeq(buffer, 1, p[1]) \o SubSeq(buffer, p[2] + 1, Len(buffer))
        ELSE buffer

\* the index of the first line equal to "debug.stack", 0 when there is none
FirstStackLine(s) ==
    IF \E i \in DOMAIN s : s[i] = "debug.stack"
    THEN CHOOSE i \in DOMAIN s : s[i] = "debug.stack" /\ \A k \in 1..(i - 1) : s[k] # "debug.stack"
    ELSE 0

addInfo_Replace(o, calldepth, s, buffer) ==
    LET i == FirstStackLine(s)
        s1 == IF i > 0 THEN [s EXCEPT ![i] = TrimStack(buffer, calldepth)] ELSE s
    IN  [o EXCEPT !.info = s1]

addInfo(o, calldepth, s, buffer) ==
    LET i == FirstStackLine(s)
        s1 == IF i > 0 THEN [s EXCEPT ![i] = TrimStack(buffer, calldepth)] ELSE s
    IN  [o EXCEPT !.info = @ \o s1]

AddInfo(o, s, buffer) == addInfo(o, 2, s, buffer)

(* ---------------------------- mockLogger ------------------------------ *)

\* fmt.Sprintln(o) of an *Outcome, which is an error: its Error() and a newline
Sprintln(o) == Error(o) \o "\n"

mockPrint(log, o) == log \o Sprintln(o)
mockFatal(log, o) == log \o "[FATAL] " \o Sprintln(o)
mockPanic(log, o) == log \o "[PANIC] " \o Sprintln(o)

\* a call the operation makes: of the Try-ed function, a Catch handler or the logger
Call(fn, arg) == [fn |-> fn, arg |-> arg]

(* ------------------------------- Log ---------------------------------- *)

Log_Fallthrough(h, o, log) ==
    LET fatal == h[o].level = FATAL
        panic == fatal \/ h[o].level = PANIC
        print == panic \/ h[o].level = ERROR
        l1 == IF fatal THEN mockFatal(log, h[o]) ELSE log
        l2 == IF panic THEN mockPanic(l1, h[o]) ELSE l1
        l3 == IF print THEN mockPrint(l2, h[o]) ELSE l2
    IN  [log |-> l3,
         calls |-> (IF fatal THEN <<Call("Fatal", o)>> ELSE <<>>)
                   \o (IF panic THEN <<Call("Panic", o)>> ELSE <<>>)
                   \o (IF print THEN <<Call("Print", o)>> ELSE <<>>),
         ret |-> o]

\* o.Log(log): the logger's text afterwards, the calls made on it, the value returned
Log(h, o, log) ==
    CASE h[o].level = FATAL -> [log |-> mockFatal(log, h[o]), calls |-> <<Call("Fatal", o)>>, ret |-> o]
      [] h[o].level = PANIC -> [log |-> mockPanic(log, h[o]), calls |-> <<Call("Panic", o)>>, ret |-> o]
      [] h[o].level = ERROR -> [log |-> mockPrint(log, h[o]), calls |-> <<Call("Print", o)>>, ret |-> o]
      [] OTHER -> [log |-> log, calls |-> <<>>, ret |-> o]

(* ------------------------------ Catch --------------------------------- *)

\* the functions a caller passes to Catch, by what they do with the Outcome
Handlers == {"inspect", "KeepCalm", "Escalate", "SetLevel(OK)"}

\* f(o) for a handler f
RunHandler(f, o) ==
    CASE f = "KeepCalm" -> KeepCalm(o)
      [] f = "Escalate" -> Escalate(o)
      [] f = "SetLevel(OK)" -> SetLevel(o, OK)
      [] OTHER -> o

Catch_Always(h, o, f) ==
    [heap |-> [h EXCEPT ![o] = RunHandler(f, @)], calls |-> <<Call("handler", o)>>, ret |-> o]

\* o.Catch(f): the heap afterwards, the calls of f, the value returned
Catch(h, o, f) ==
    IF h[o].level = PANIC
    THEN [heap |-> [h EXCEPT ![o] = RunHandler(f, @)], calls |-> <<Call("handler", o)>>, ret |-> o]
    ELSE [heap |-> h, calls |-> <<>>, ret |-> o]

(* ------------------------------- Try ---------------------------------- *)

\* the four function types Try's type switch has a case for
Recognized ==
    {"func()", "func() error", "func() interface {}", "func() (interface {}, error)"}

DeclaresValue(type) == type \in {"func() interface {}", "func() (interface {}, error)"}
DeclaresError(type) == type \in {"func() error", "func() (interface {}, error)"}

\* the cases of the type switch for a function that returns: o with f's results assigned
TryAssign_ValueOnly(o, f) ==
    CASE f.type = "func() interface {}" -> [o EXCEPT !.val = f.val]
      [] f.type = "func() (interface {}, error)" -> [o EXCEPT !.val = f.val]
      [] OTHER -> o

TryAssign(o, f) ==
    CASE f.type = "func() error" -> [o EXCEPT !.err = f.err]
      [] f.type = "func() interface {}" -> [o EXCEPT !.val = f.val]
      [] f.type = "func() (interface {}, error)" -> [o EXCEPT !.val = f.val, !.err = f.err]
      [] OTHER -> o

\* the default case of the type switch: the Outcome for an unsupported argument
TryDefault_NoLevel(f) ==
    [ZeroOutcome EXCEPT !.code = ERR_TRY_ARG,
         !.text = "Try: unsupported argument type " \o f.type]

TryDefault(f) ==
    [ZeroOutcome EXCEPT !.level = ERROR, !.code = ERR_TRY_ARG,
         !.text = "Try: unsupported argument type " \o f.type]

\* the body of Try, from o = &Outcome{level: OK} to the return: the frame it leaves,
\* with the named result o, whether a panic is unwinding and with what value, and the
\* calls of f made. A panic in f() unwinds before the assignment of its results. In the
\* default case the first Outcome is dropped for the new one.
TryBody_Retry(h, f) ==
    LET o == Len(h) + 1
        fr == [heap |-> Append(h, [ZeroOutcome EXCEPT !.level = OK]), o |-> o,
               panicking |-> FALSE, payload |-> Nil, calls |-> <<>>]
        called == [fr EXCEPT !.calls = <<Call("f", NULL)>>]
    IN  IF f.type \in Recognized
        THEN IF f.panics
             THEN [called EXCEPT !.panicking = TRUE, !.payload = f.payload,
                                 !.calls = <<Call("f", NULL), Call("f", NULL)>>]
             ELSE [called EXCEPT !.heap[o] = TryAssign(@, f)]
        ELSE [fr EXCEPT !.heap[o] = TryDefault(f)]

TryBody(h, f) ==
    LET o == Len(h) + 1
        fr == [heap |-> Append(h, [ZeroOutcome EXCEPT !.level = OK]), o |-> o,
               panicking |-> FALSE, payload |-> Nil, calls |-> <<>>]
        called == [fr EXCEPT !.calls = <<Call("f", NULL)>>]
    IN  IF f.type \in Recognized
        THEN IF f.panics
             THEN [called EXCEPT !.panicking = TRUE, !.payload = f.payload]
             ELSE [called EXCEPT !.heap[o] = TryAssign(@, f)]
        ELSE [fr EXCEPT !.heap[o] = TryDefault(f)]

\* what recover() returns in the deferred function: nil when nothing is unwinding;
\* for panic(nil), nil or a *runtime.PanicNilError as the build's panicnil says
recover(fr, pn) ==
    IF ~fr.panicking THEN Nil
    ELSE IF fr.payload = Nil THEN (IF pn THEN Nil ELSE PanicNilError)
    ELSE fr.payload

TryDeferred_NoRecover(fr, buffer, pn) == fr

\* the deferred function of Try: calling recover() ends the unwinding
TryDeferred(fr, buffer, pn) ==
    LET err == recover(fr, pn)
        rec == [fr EXCEPT !.panicking = FALSE]
    IN  IF err # Nil
        THEN [rec EXCEPT !.heap[fr.o] =
                 addInfo([@ EXCEPT !.level = PANIC, !.code = ERR_TRY_PANIC,
                              !.text = "panic: " \o SprintS(err)],
                         2, <<"debug.stack">>, buffer)]
        ELSE rec

(* ------------------------------ inputs -------------------------------- *)

Payloads ==
    {Nil, StrVal("boom"), IntVal("7"), ErrVal("runtime error: integer divide by zero")}

\* what a function of each type returns when it completes
Returns(type) ==
    CASE type = "func() error" -> <<<<Nil, Nil>>, <<Nil, ErrVal("test")>>>>
      [] type = "func() interface {}" -> <<<<Nil, Nil>>, <<IntVal("17"), Nil>>>>
      [] type = "func() (interface {}, error)" ->
           <<<<IntVal("17"), Nil>>, <<Nil, ErrVal("test")>>, <<IntVal("17"), ErrVal("test")>>>>
      [] OTHER -> <<<<Nil, Nil>>>>

Range(s) == {s[i] : i \in DOMAIN s}
Last(s) == s[Len(s)]

\* the value and error a function would have returned had it not panicked
Unreached(type) ==
    <<IF DeclaresValue(type) THEN IntVal("17") ELSE Nil,
      IF DeclaresError(type) THEN ErrVal("divByZero should panic") ELSE Nil>>

Func(type, panics, payload, r) ==
    [type |-> type, panics |-> panics, payload |-> payload, val |-> r[1], err |-> r[2]]

\* the arguments Try is given: functions of the four types that return or panic,
\* and arguments of other types
TryArgs ==
    UNION {{Func(type, FALSE, Nil, r) : r \in Range(Returns(type))} : type \in Recognized}
    \cup {Func(type, TRUE, p, Unreached(type)) : type \in Recognized, p \in Payloads}
    \cup {Func("func() (int, error)", FALSE, Nil, <<IntVal("17"), Nil>>),
          Func("func() (int, error)", TRUE, StrVal("boom"), <<IntVal("17"), Nil>>),
          Func("int", FALSE, Nil, <<Nil, Nil>>)}

\* one argument of each kind, for the runs that go on after Try
SomeTryArgs ==
    {Func(type, FALSE, Nil, Last(Returns(type))) : type \in Recognized}
    \cup {Func("func()", TRUE, Nil, Unreached("func()")),
          Func("func() (interface {}, error)", TRUE,
               ErrVal("runtime error: integer divide by zero"),
               Unreached("func() (interface {}, error)")),
          Func("func() (int, error)", FALSE, Nil, <<IntVal("17"), Nil>>)}

\* what runtime.Stack may write: a header line and two lines per frame
StackDumps ==
    {"goroutine 1:\nA\na\n",
     "goroutine 1:\nA\na\nB\nb\nC\nc\n"}

\* Outcomes built directly, as the tests build them
Literals ==
    {ZeroOutcome,
     [ZeroOutcome EXCEPT !.val = IntVal("17"), !.err = ErrVal("test"), !.text = "abc"]}

LevelArgs == {OK, ERROR, PANIC, FATAL, 17}
CodeArgs == {0, 17}
TextArgs == {"", "xyz"}
InfoArgs == {<<"line 1">>, <<"line 1", "debug.stack">>, <<"debug.stack", "debug.stack">>}

(* ------------------------------ actions ------------------------------- *)

Rec(op, recv, arg, ret, calls, pre, post, propagated) ==
    [op |-> op, recv |-> recv, arg |-> arg, ret |-> ret, calls |-> calls,
     pre |-> pre, post |-> post, propagated |-> propagated]

Refs == DOMAIN heap

Init ==
    /\ heap = <<>>
    /\ ml = ""
    /\ panicnil \in BOOLEAN
    /\ hist = <<>>
    /\ thr = <<>>

\* o := Try(f), with buffer what runtime.Stack writes should f panic
Try(f, buffer) ==
    /\ Len(hist) < MaxOps
    /\ Len(heap) < MaxOutcomes
    /\ LET fr == TryDeferred(TryBody(heap, f), buffer, panicnil)
       IN  /\ heap' = IF fr.panicking THEN heap ELSE fr.heap
           /\ hist' = Append(hist,
                  Rec("Try", NULL, f, IF fr.panicking THEN NULL ELSE fr.o, fr.calls,
                      ZeroOutcome, IF fr.panicking THEN ZeroOutcome ELSE fr.heap[fr.o],
                      fr.panicking))
    /\ UNCHANGED <<ml, panicnil, thr>>

\* o := &Outcome{...}
NewOutcome(lit) ==
    /\ Len(hist) < MaxOps
    /\ Len(heap) < MaxOutcomes
    /\ heap' = Append(heap, lit)
    /\ hist' = Append(hist, Rec("New", NULL, lit, Len(heap) + 1, <<>>, lit, lit, FALSE))
    /\ UNCHANGED <<ml, panicnil, thr>>

\* a method of o that changes only o and returns it
Method(op, o, arg, post) ==
    /\ Len(hist) < MaxOps
    /\ heap' = [heap EXCEPT ![o] = post]
    /\ hist' = Append(hist, Rec(op, o, arg, o, <<>>, heap[o], post, FALSE))
    /\ UNCHANGED <<ml, panicnil, thr>>

CallKeepCalm(o) == Method("KeepCalm", o, <<>>, KeepCalm(heap[o]))

CallEscalate(o) == Method("Escalate", o, <<>>, Escalate(heap[o]))

CallSetLevel(o, l) == Method("SetLevel", o, l, SetLevel(heap[o], l))

CallSetCode(o, c) == Method("SetCode", o, c, SetCode(heap[o], c))

CallSetText(o, t) == Method("SetText", o, t, SetText(heap[o], t))

CallAddInfo(o, s, buffer) == Method("AddInfo", o, s, AddInfo(heap[o], s, buffer))

CallCatch(o, f) ==
    /\ Len(hist) < MaxOps
    /\ LET r == Catch(heap, o, f)
       IN  /\ heap' = r.heap
           /\ hist' = Append(hist, Rec("Catch", o, f, r.ret, r.calls, heap[o], r.heap[o], FALSE))
    /\ UNCHANGED <<ml, panicnil, thr>>

CallLog(o) ==
    /\ Len(hist) < MaxOps
    /\ LET r == Log(heap, o, ml)
       IN  /\ ml' = r.log
           /\ hist' = Append(hist, Rec("Log", o, "mockLogger", r.ret, r.calls, heap[o], heap[o], FALSE))
    /\ UNCHANGED <<heap, panicnil, thr>>

Next ==
    \/ \E f \in SomeTryArgs, buffer \in StackDumps : Try(f, buffer)
    \/ \E lit \in Literals : NewOutcome(lit)
    \/ \E o \in Refs : CallKeepCalm(o)
    \/ \E o \in Refs : CallEscalate(o)
    \/ \E o \in Refs, f \in Handlers : CallCatch(o, f)
    \/ \E o \in Refs : CallLog(o)
    \/ \E o \in Refs, l \in LevelArgs : CallSetLevel(o, l)
    \/ \E o \in Refs, c \in CodeArgs : CallSetCode(o, c)
    \/ \E o \in Refs, t \in TextArgs : CallSetText(o, t)
    \/ \E o \in Refs, s \in InfoArgs, buffer \in StackDumps : CallAddInfo(o, s, buffer)

Spec == Init /\ [][Next]_vars

\* Try alone, on every argument
NextTry == \E f \in TryArgs, buffer \in StackDumps : Try(f, buffer)

SpecTry == Init /\ [][NextTry]_vars

(* ----------------- functions tried on their whole domain ---------------- *)

Int8 == (0 - 128)..127

Levels == {OK, ERROR, PANIC, FATAL}

\* (&Outcome{}).SetLevel(l0) for each level l0, then SetLevel(l) for every int8 l
InitSetLevel ==
    /\ \E l0 \in Levels : heap = <<SetLevel(ZeroOutcome, l0)>>
    /\ ml = ""
    /\ panicnil = FALSE
    /\ hist = <<>>
    /\ thr = <<>>

NextSetLevel == \E o \in Refs, l \in Int8 : Len(hist) < MaxPure /\ CallSetLevel(o, l)

SpecSetLevel == InitSetLevel /\ [][NextSetLevel]_vars

\* levelName(l) for every int8 l
CallLevelName(l) ==
    /\ Len(hist) < MaxPure
    /\ hist' = Append(hist, Rec("levelName", NULL, l, levelName(l), <<>>,
                                ZeroOutcome, ZeroOutcome, FALSE))
    /\ UNCHANGED <<heap, ml, panicnil, thr>>

NextLevelName == \E l \in Int8 : CallLevelName(l)

SpecLevelName == Init /\ [][NextLevelName]_vars

\* codes on both sides of the four-digit range, and negative ones
WideCodes == {0, 1, 17, 255, 4096, 65535, 65536, 0 - 1, 0 - 17}

\* (&Outcome{}).SetLevel(l).SetCode(c).SetText(t), then Error()
InitError ==
    /\ \E l \in Levels, c \in WideCodes, t \in {"", "abc"} :
          heap = <<SetText(SetCode(SetLevel(ZeroOutcome, l), c), t)>>
    /\ ml = ""
    /\ panicnil = FALSE
    /\ hist = <<>>
    /\ thr = <<>>

CallError(o) ==
    /\ Len(hist) < MaxPure
    /\ hist' = Append(hist, Rec("Error", o, <<>>, Error(heap[o]), <<>>,
                                heap[o], heap[o], FALSE))
    /\ UNCHANGED <<heap, ml, panicnil, thr>>

NextError == \E o \in Refs : CallError(o)

SpecError == InitError /\ [][NextError]_vars

\* addInfo(calldepth, "debug.stack") on every short capture of runtime.Stack: the
\* bytes are a letter or a newline
RECURSIVE Captures(_)
Captures(n) ==
    IF n = 0 THEN {""}
    ELSE LET S == Captures(n - 1) IN S \cup {s \o c : s \in S, c \in {"x", "\n"}}

Depths == 0..2

CallAddStack(calldepth, buffer) ==
    /\ hist = <<>>
    /\ LET o == addInfo(ZeroOutcome, calldepth, <<"debug.stack">>, buffer)
       IN  hist' = Append(hist, Rec("addInfo", NULL, [calldepth |-> calldepth, buffer |-> buffer],
                                    o.info[1], <<>>, ZeroOutcome, o, FALSE))
    /\ UNCHANGED <<heap, ml, panicnil, thr>>

NextAddStack == \E calldepth \in Depths, buffer \in Captures(MaxCapture) : CallAddStack(calldepth, buffer)

SpecAddStack == Init /\ [][NextAddStack]_vars

(* --------------- KeepCalm and Escalate in two goroutines --------------- *)

\* Two goroutines share an Outcome that Try returned at PANIC; one calls KeepCalm, the
\* other Escalate, with nothing ordering them. Each method is a load of o.level, the
\* test of the value loaded, and a store if the test holds. The level is one byte, so
\* a load yields the initial value or a value some store wrote. The heap holds two
\* such Outcomes, equal at the start, each with its own pair of goroutines.
Racers == {"KeepCalm", "Escalate"}

\* the Outcomes Try returns at PANIC
PanicOutcomes ==
    {o \in {TryDeferred(TryBody(<<>>, f), buffer, pn).heap[1] :
                f \in {g \in TryArgs : g.type \in Recognized /\ g.panics},
                buffer \in StackDumps, pn \in BOOLEAN} :
        Level(o) = PANIC}

\* the test both methods make on the level they loaded
AtPanic_Never(level) == FALSE

AtPanic(level) == level = PANIC

\* the level the method stores
Target(m) == IF m = "KeepCalm" THEN ERROR ELSE FATAL

InitRace ==
    /\ \E p \in PanicOutcomes : heap = <<p, p>>
    /\ ml = ""
    /\ panicnil \in BOOLEAN
    /\ hist = <<>>
    /\ thr = [o \in 1..2 |-> [m \in Racers |-> [pc |-> "load", seen |-> <<>>]]]

\* `o.level == PANIC`: the load and the test
RaceLoad(o, m) ==
    /\ thr[o][m].pc = "load"
    /\ thr' = [thr EXCEPT ![o][m] =
                  [pc |-> IF AtPanic(Level(heap[o])) THEN "store" ELSE "return",
                   seen |-> <<Level(heap[o])>>]]
    /\ UNCHANGED <<heap, ml, panicnil, hist>>

\* `o.level = ERROR`, respectively `o.level = FATAL`
RaceStore(o, m) ==
    /\ thr[o][m].pc = "store"
    /\ heap' = [heap EXCEPT ![o].level = Target(m)]
    /\ thr' = [thr EXCEPT ![o][m].pc = "return"]
    /\ UNCHANGED <<ml, panicnil, hist>>

NextRace ==
    \/ \E o \in Refs, m \in Racers : RaceLoad(o, m)
    \/ \E o \in Refs, m \in Racers : RaceStore(o, m)

SpecRace == InitRace /\ [][NextRace]_vars

(* ------------------------------ claims -------------------------------- *)

TryCalls == {i \in DOMAIN hist : hist[i].op = "Try"}

\* C1: a recognized callable that panics during Try yields an Outcome at PANIC with
\* code ERR_TRY_PANIC, a text starting with "panic: ", no value, no error and exactly
\* one info entry. Fails for panic(nil) on a build where recover() then returns nil.
C1_FaultYieldsPanicOutcome ==
    \A i \in TryCalls :
        LET c == hist[i]
        IN  (c.arg.type \in Recognized /\ c.arg.panics) =>
                /\ c.ret # NULL
                /\ Level(c.post) = PANIC
                /\ Code(c.post) = ERR_TRY_PANIC
                /\ HasPrefix(Text(c.post), "panic: ")
                /\ Value(c.post) = Nil
                /\ ErrOf(c.post) = Nil
                /\ Len(Info(c.post)) = 1

\* The same for every panic whose recovered value is not nil: any payload but nil,
\* and nil too on a build that turns panic(nil) into a *runtime.PanicNilError.
C1_RecoveredFaultYieldsPanicOutcome ==
    \A i \in TryCalls :
        LET c == hist[i]
        IN  (c.arg.type \in Recognized /\ c.arg.panics /\ ~(c.arg.payload = Nil /\ panicnil)) =>
                /\ c.ret # NULL
                /\ Level(c.post) = PANIC
                /\ Code(c.post) = ERR_TRY_PANIC
                /\ Text(c.post) = "panic: " \o SprintS(IF c.arg.payload = Nil THEN PanicNilError ELSE c.arg.payload)
                /\ Result(c.post) = <<Nil, Nil>>
                /\ Len(Info(c.post)) = 1

\* C2: Try returns normally with a non-nil Outcome for every recognized callable,
\* whether it returns or panics and whatever it panics with: no panic of the callable
\* reaches Try's caller.
C2_TryNeverPropagates ==
    \A i \in TryCalls :
        LET c == hist[i]
        IN  c.arg.type \in Recognized =>
                /\ ~c.propagated
                /\ c.ret # NULL
                /\ c.ret \in DOMAIN heap

C2_Witness ==
    \E i \in TryCalls :
        /\ hist[i].arg.type \in Recognized /\ hist[i].arg.panics
        /\ hist[i].arg.payload = Nil
        /\ hist[i].ret # NULL /\ ~hist[i].propagated

\* C3: for a recognized callable that returns, Try yields level OK, code 0, empty
\* text, empty info, Value() and Err() exactly the outputs its type declares (empty
\* for the others), and Result() the pair of the two.
C3_NormalCompletion ==
    \A i \in TryCalls :
        LET c == hist[i]
        IN  (c.arg.type \in Recognized /\ ~c.arg.panics) =>
                /\ c.ret # NULL
                /\ Level(c.post) = OK
                /\ Code(c.post) = 0
                /\ Text(c.post) = ""
                /\ Info(c.post) = <<>>
                /\ Value(c.post) = IF DeclaresValue(c.arg.type) THEN c.arg.val ELSE Nil
                /\ ErrOf(c.post) = IF DeclaresError(c.arg.type) THEN c.arg.err ELSE Nil
                /\ Result(c.post) = <<Value(c.post), ErrOf(c.post)>>

C3_Witness ==
    \E i \in TryCalls :
        /\ hist[i].arg.type = "func() (interface {}, error)" /\ ~hist[i].arg.panics
        /\ Result(hist[i].post) = <<IntVal("17"), ErrVal("test")>>
        /\ Level(hist[i].post) = OK

\* C4: an argument that is not of a recognized type is never called, and the Outcome
\* is at ERROR with code ERR_TRY_ARG, a text starting with "Try: unsupported argument
\* type", no value, no error and no info.
C4_UnsupportedArgument ==
    \A i \in TryCalls :
        LET c == hist[i]
        IN  c.arg.type \notin Recognized =>
                /\ c.calls = <<>>
                /\ c.ret # NULL /\ ~c.propagated
                /\ Level(c.post) = ERROR
                /\ Code(c.post) = ERR_TRY_ARG
                /\ HasPrefix(Text(c.post), "Try: unsupported argument type")
                /\ Value(c.post) = Nil
                /\ ErrOf(c.post) = Nil
                /\ Info(c.post) = <<>>

C4_Witness ==
    \E i \in TryCalls :
        /\ hist[i].arg.type = "func() (int, error)" /\ hist[i].arg.panics
        /\ hist[i].calls = <<>>
        /\ Level(hist[i].post) = ERROR

\* C5: a callable that returns a non-nil error leaves the Outcome at OK with Error()
\* empty; the error is what Err() and the second component of Result() give.
C5_ReturnedErrorIsNoCondition ==
    \A i \in TryCalls :
        LET c == hist[i]
        IN  (DeclaresError(c.arg.type) /\ ~c.arg.panics /\ c.arg.err # Nil) =>
                /\ Level(c.post) = OK
                /\ Error(c.post) = ""
                /\ ErrOf(c.post) = c.arg.err
                /\ Result(c.post)[2] = c.arg.err

C5_Witness ==
    \E i \in TryCalls :
        /\ hist[i].arg.type = "func() error" /\ ~hist[i].arg.panics
        /\ ErrOf(hist[i].post) = ErrVal("test")
        /\ Level(hist[i].post) = OK

Transitions == {"KeepCalm", "Escalate"}

\* C6: KeepCalm changes the level, to ERROR, exactly when it is PANIC, and Escalate
\* changes it, to FATAL, exactly when it is PANIC; otherwise each leaves the Outcome
\* as it is; and the same one called again right after changes nothing more.
C6_TransitionsOnlyFromPanic ==
    /\ \A i \in DOMAIN hist :
          LET c == hist[i]
          IN  /\ c.op = "KeepCalm" =>
                    IF c.pre.level = PANIC
                    THEN c.post = [c.pre EXCEPT !.level = ERROR]
                    ELSE c.post = c.pre
              /\ c.op = "Escalate" =>
                    IF c.pre.level = PANIC
                    THEN c.post = [c.pre EXCEPT !.level = FATAL]
                    ELSE c.post = c.pre
              /\ c.op \in Transitions => c.ret = c.recv
    /\ \A i \in DOMAIN hist :
          (/\ i + 1 \in DOMAIN hist
           /\ hist[i].op \in Transitions
           /\ hist[i + 1].op = hist[i].op
           /\ hist[i + 1].recv = hist[i].recv)
          => hist[i + 1].post = hist[i].post

C6_Witness ==
    \E i \in DOMAIN hist :
        /\ i + 1 \in DOMAIN hist
        /\ hist[i].op = "KeepCalm" /\ hist[i].pre.level = PANIC /\ hist[i].post.level = ERROR
        /\ hist[i + 1].op = "KeepCalm" /\ hist[i + 1].recv = hist[i].recv
        /\ hist[i + 1].post.level = ERROR

\* the calls i..j start and end on Outcome o, and every call on o among them is a
\* KeepCalm or an Escalate
OnlyTransitions(i, j, o) ==
    /\ i <= j
    /\ hist[i].recv = o /\ hist[j].recv = o
    /\ \A k \in i..j : hist[k].recv = o => hist[k].op \in Transitions

\* C7: over any run of KeepCalm and Escalate calls on an Outcome, a level of OK, ERROR
\* or FATAL stays what it was; from PANIC the first call decides: the level ends at
\* ERROR when it is KeepCalm and at FATAL when it is Escalate, whatever follows.
C7_FirstTransitionWins ==
    \A i \in DOMAIN hist : \A j \in DOMAIN hist :
        OnlyTransitions(i, j, hist[i].recv) =>
            /\ hist[i].pre.level \in {OK, ERROR, FATAL} => hist[j].post.level = hist[i].pre.level
            /\ (hist[i].pre.level = PANIC /\ hist[i].op = "KeepCalm") => hist[j].post.level = ERROR
            /\ (hist[i].pre.level = PANIC /\ hist[i].op = "Escalate") => hist[j].post.level = FATAL

C7_Witness ==
    \E i \in DOMAIN hist :
        /\ i + 1 \in DOMAIN hist
        /\ hist[i].op = "KeepCalm" /\ hist[i].pre.level = PANIC
        /\ hist[i + 1].op = "Escalate" /\ hist[i + 1].recv = hist[i].recv
        /\ hist[i + 1].post.level = ERROR
        /\ heap[hist[i].recv].level = ERROR

\* C8: Catch calls its handler once, with the receiver, when the level is PANIC at the
\* call, and not at all at any other level; either way it returns the receiver.
C8_CatchOnlyAtPanic ==
    \A i \in DOMAIN hist :
        LET c == hist[i]
        IN  c.op = "Catch" =>
                /\ c.calls = IF c.pre.level = PANIC THEN <<Call("handler", c.recv)>> ELSE <<>>
                /\ c.ret = c.recv
                /\ c.pre.level # PANIC => c.post = c.pre

C8_Witness ==
    \E i \in DOMAIN hist : \E j \in DOMAIN hist :
        /\ i < j
        /\ hist[i].op = "Catch" /\ hist[i].pre.level = PANIC /\ Len(hist[i].calls) = 1
        /\ hist[j].op = "Catch" /\ hist[j].recv = hist[i].recv
        /\ hist[j].pre.level \in {ERROR, FATAL} /\ hist[j].calls = <<>>

\* the logger method Log uses at each level
SinkOf(level) ==
    CASE level = FATAL -> "Fatal" [] level = PANIC -> "Panic" [] level = ERROR -> "Print"
      [] OTHER -> "none"

\* C9: Log makes one call on the logger, passing the Outcome: Fatal at FATAL, Panic at
\* PANIC, Print at ERROR; at OK it makes none. It never makes more than one, leaves
\* the Outcome as it is and returns the receiver.
C9_LogDispatch ==
    \A i \in DOMAIN hist :
        LET c == hist[i]
        IN  c.op = "Log" =>
                /\ c.pre.level = OK => c.calls = <<>>
                /\ c.pre.level \in {ERROR, PANIC, FATAL} =>
                       c.calls = <<Call(SinkOf(c.pre.level), c.recv)>>
                /\ Len(c.calls) <= 1
                /\ c.ret = c.recv
                /\ c.post = c.pre

C9_Witness ==
    \E i \in DOMAIN hist :
        /\ hist[i].op = "Log" /\ hist[i].pre.level = FATAL
        /\ hist[i].calls = <<Call("Fatal", hist[i].recv)>>
        /\ ml = "[FATAL] " \o Error(heap[hist[i].recv]) \o "\n"

\* the first KeepCalm or Escalate on Outcome o among the calls after i and before k,
\* "none" when there is none
FirstTransition(i, k, o) ==
    LET js == {j \in (i + 1)..(k - 1) : hist[j].recv = o /\ hist[j].op \in Transitions}
    IN  IF js = {} THEN "none"
        ELSE hist[CHOOSE j \in js : \A j2 \in js : j <= j2].op

\* no call on o after i and before k sets its level otherwise: no SetLevel, and no
\* Catch whose handler changes the Outcome
NotForced(i, k, o) ==
    \A j \in (i + 1)..(k - 1) :
        hist[j].recv = o =>
            /\ hist[j].op # "SetLevel"
            /\ hist[j].op = "Catch" => hist[j].arg = "inspect"

\* C10: for an Outcome Try returned at PANIC, Log calls the logger's Print, and not
\* Panic, when KeepCalm was called on it first; Fatal when Escalate was; and Panic when
\* neither was.
C10_LogAfterTransition ==
    \A i \in TryCalls : \A k \in DOMAIN hist :
        (/\ i < k
         /\ hist[i].post.level = PANIC
         /\ hist[k].op = "Log" /\ hist[k].recv = hist[i].ret
         /\ NotForced(i, k, hist[i].ret))
        => LET first == FirstTransition(i, k, hist[i].ret)
           IN  hist[k].calls =
                   <<Call(CASE first = "KeepCalm" -> "Print"
                            [] first = "Escalate" -> "Fatal"
                            [] OTHER -> "Panic",
                          hist[i].ret)>>

C10_Witness ==
    \E i \in TryCalls : \E j \in DOMAIN hist : \E k \in DOMAIN hist :
        /\ i < j /\ j < k
        /\ hist[i].post.level = PANIC
        /\ hist[j].op = "KeepCalm" /\ hist[j].recv = hist[i].ret
        /\ hist[k].op = "Log" /\ hist[k].recv = hist[i].ret
        /\ hist[k].calls = <<Call("Print", hist[i].ret)>>

\* C11: SetLevel(l) sets the level to l when l is OK, ERROR, PANIC or FATAL, whatever
\* the level was, and changes nothing when l is any other int8; it changes no other
\* field and returns the receiver.
C11_SetLevelOnlyRecognized ==
    \A i \in DOMAIN hist :
        LET c == hist[i]
        IN  c.op = "SetLevel" =>
                /\ c.arg \in Levels => c.post = [c.pre EXCEPT !.level = c.arg]
                /\ c.arg \notin Levels => c.post = c.pre
                /\ c.ret = c.recv
                /\ heap[c.recv].level \in Levels

C11_Witness ==
    \E i \in DOMAIN hist :
        /\ hist[i].op = "SetLevel"
        /\ hist[i].pre.level = FATAL /\ hist[i].arg = PANIC
        /\ heap[hist[i].recv].level = PANIC

\* C12 as stated: Error() is the empty string exactly when the level is OK.
C12_ErrorEmptyIffOK ==
    \A o \in Refs : (Error(heap[o]) = "") <=> (heap[o].level = OK)

\* C12: Error() is the empty string when the level is OK; at ERROR, PANIC and FATAL
\* it is empty exactly when the text is empty and the code is 0, so it is never empty
\* for an Outcome as Try returns it at one of these levels.
C12_ErrorEmptyAtOK ==
    /\ \A o \in Refs :
          /\ heap[o].level = OK => Error(heap[o]) = ""
          /\ heap[o].level \in {ERROR, PANIC, FATAL} =>
                ((Error(heap[o]) = "") <=> (heap[o].text = "" /\ heap[o].code = 0))
    /\ \A i \in TryCalls :
          hist[i].ret # NULL =>
              ((Error(hist[i].post) = "") <=> (hist[i].post.level = OK))

C12_Witness ==
    \E o \in Refs : \E i \in DOMAIN hist :
        /\ hist[i].op = "SetLevel" /\ hist[i].recv = o
        /\ heap[o].level = FATAL
        /\ Error(heap[o]) = ""

\* the code as four hexadecimal digits
Hex4(c) ==
    HexDigit((c \div 4096) % 16) \o HexDigit((c \div 256) % 16)
        \o HexDigit((c \div 16) % 16) \o HexDigit(c % 16)

ErrorCalls == {i \in DOMAIN hist : hist[i].op = "Error"}

\* C13 as stated: off OK, Error() is the text alone when the code is 0, and otherwise
\* the text followed by " (code: 0x", the code as four hexadecimal digits and ")".
C13_FourDigitSuffix ==
    \A i \in ErrorCalls :
        LET o == hist[i].pre
        IN  o.level # OK =>
                hist[i].ret = IF o.code = 0 THEN o.text
                              ELSE o.text \o " (code: 0x" \o Hex4(o.code) \o ")"

\* C13: off OK, Error() is the text alone when the code is 0, and otherwise the text
\* followed by " (code: 0x<hex>)", where <hex> is the code in lowercase hexadecimal
\* padded with zeros to at least four characters: four digits up to 0xffff, more
\* above, and for a negative code a minus sign and at least three digits.
C13_ErrorFormat ==
    \A i \in ErrorCalls :
        LET o == hist[i].pre
            hex == IF o.code < 0 THEN "-" \o SubSeq(Hex4(0 - o.code), 2, 4)
                   ELSE IF o.code <= 65535 THEN Hex4(o.code)
                   ELSE HexDigit(o.code \div 65536) \o Hex4(o.code % 65536)
        IN  /\ o.level = OK => hist[i].ret = ""
            /\ (o.level # OK /\ o.code = 0) => hist[i].ret = o.text
            /\ (o.level # OK /\ o.code # 0) =>
                   hist[i].ret = o.text \o " (code: 0x" \o hex \o ")"
            /\ (o.level = FATAL /\ o.code = 17 /\ o.text = "abc") =>
                   hist[i].ret = "abc (code: 0x0011)"

C13_Witness ==
    \E i \in ErrorCalls :
        /\ hist[i].pre.level = FATAL /\ hist[i].pre.code = 17 /\ hist[i].pre.text = "abc"
        /\ hist[i].ret = "abc (code: 0x0011)"

\* C17: levelName gives "OK", "ERROR", "PANIC", "FATAL" for the four levels, which are
\* four different values, and "?" for every other int8.
C17_LevelNameTotal ==
    /\ Cardinality(Levels) = 4
    /\ \A i \in DOMAIN hist :
          LET c == hist[i]
          IN  c.op = "levelName" =>
                  /\ c.arg = OK => c.ret = "OK"
                  /\ c.arg = ERROR => c.ret = "ERROR"
                  /\ c.arg = PANIC => c.ret = "PANIC"
                  /\ c.arg = FATAL => c.ret = "FATAL"
                  /\ c.arg \notin Levels <=> c.ret = "?"

C17_Witness ==
    \E i \in DOMAIN hist :
        hist[i].op = "levelName" /\ hist[i].arg = 0 - 128 /\ hist[i].ret = "?"

(* ------------------------------ AddInfo ------------------------------- *)

AddInfoCalls == {i \in DOMAIN hist : hist[i].op = "AddInfo"}

\* the entries a call appended: what follows the info the receiver had before
Appended(c) == SubSeq(c.post.info, Len(c.pre.info) + 1, Len(c.post.info))

\* the snapshots that can stand for a line "debug.stack" passed to AddInfo
Snapshots == {TrimStack(b, 2) : b \in StackDumps}

\* C14: AddInfo never stores the literal "debug.stack": every line equal to it,
\* wherever and however often it occurs among the arguments, is replaced by a
\* captured stack snapshot, and every other line is appended verbatim.
C14_SentinelNeverStored ==
    \A i \in AddInfoCalls :
        LET c == hist[i]
            new == Appended(c)
        IN  /\ Len(new) = Len(c.arg)
            /\ \A k \in DOMAIN c.arg :
                   IF c.arg[k] = "debug.stack"
                   THEN new[k] # "debug.stack" /\ new[k] \in Snapshots
                   ELSE new[k] = c.arg[k]

\* C15: AddInfo accumulates: the info the receiver had is an unchanged prefix of
\* the new info, the new info is longer by the number of arguments, and the k-th
\* new entry is the k-th argument, or the snapshot standing for it when that
\* argument is "debug.stack"; so it is after every call of a series of calls.
C15_AddInfoAccumulates ==
    \A i \in AddInfoCalls :
        LET c == hist[i]
            new == Appended(c)
        IN  /\ Len(c.post.info) = Len(c.pre.info) + Len(c.arg)
            /\ SubSeq(c.post.info, 1, Len(c.pre.info)) = c.pre.info
            /\ \A k \in DOMAIN c.arg :
                   \/ new[k] = c.arg[k]
                   \/ c.arg[k] = "debug.stack" /\ new[k] \in Snapshots
            /\ heap[c.recv].info = c.post.info
                  \/ \E j \in DOMAIN hist : j > i /\ hist[j].recv = c.recv

\* two calls in a row on one Outcome, the second finding the lines of the first
C15_Witness ==
    \E i, j \in AddInfoCalls :
        /\ j = i + 1
        /\ hist[i].recv = hist[j].recv
        /\ Len(hist[i].post.info) > 0
        /\ hist[j].pre.info = hist[i].post.info
        /\ Len(hist[j].post.info) = Len(hist[i].post.info) + Len(hist[j].arg)
        /\ \E k \in DOMAIN hist[j].arg : hist[j].arg[k] = "debug.stack"

(* ---------------------------- fault codes ----------------------------- *)

\* C16: code 0 means "no code": an Outcome that Try returns for an argument of an
\* unrecognized type carries ERR_TRY_ARG and one that Try returns for an intercepted
\* panic carries ERR_TRY_PANIC, neither code is 0, the two differ, and a callable
\* that completed normally leaves code 0.
C16_ZeroCodeReserved ==
    \A i \in TryCalls :
        LET c == hist[i]
        IN  /\ c.arg.type \notin Recognized =>
                   Code(c.post) = ERR_TRY_ARG /\ Code(c.post) # 0
            /\ Level(c.post) = PANIC =>
                   Code(c.post) = ERR_TRY_PANIC /\ Code(c.post) # 0
            /\ (c.arg.type \in Recognized /\ ~c.arg.panics) => Code(c.post) = 0
            /\ ERR_TRY_ARG # ERR_TRY_PANIC

(* --------------------------- calls of Try ----------------------------- *)

\* C18: Try calls a callable of a recognized type exactly once, with no arguments,
\* before it returns, whether the callable completes or panics (a panicking callable
\* is not called again), and never calls an argument of an unrecognized type.
C18_CalledExactlyOnce ==
    \A i \in TryCalls :
        LET c == hist[i]
        IN  /\ c.ret # NULL
            /\ IF c.arg.type \in Recognized
               THEN Len(c.calls) = 1 /\ c.calls[1] = Call("f", NULL)
               ELSE c.calls = <<>>

\* a callable that panicked, called once, its panic intercepted when Try returned
C18_Witness ==
    \E i \in TryCalls :
        /\ hist[i].arg.type \in Recognized /\ hist[i].arg.panics
        /\ Len(hist[i].calls) = 1
        /\ Level(hist[i].post) = PANIC
        /\ ~hist[i].propagated

(* ------------------------- frames of the setters ---------------------- *)

\* the calls made on the Outcome that the Try call i returned
CallsOn(i) == {j \in DOMAIN hist : j > i /\ hist[j].recv = hist[i].ret}

\* C19: what Value(), Err() and Result() give for an Outcome returned by Try is what
\* Try left there, whatever calls of Catch, KeepCalm, Escalate, Log, SetLevel, SetCode,
\* SetText and AddInfo were made on it since: none of them writes the value or the error.
C19_ValueAndErrFrozen ==
    \A i \in TryCalls :
        LET c == hist[i]
        IN  c.ret # NULL =>
                /\ Value(heap[c.ret]) = Value(c.post)
                /\ ErrOf(heap[c.ret]) = ErrOf(c.post)
                /\ Result(heap[c.ret]) = Result(c.post)
                /\ \A j \in CallsOn(i) :
                       /\ hist[j].op \in {"Catch", "KeepCalm", "Escalate", "Log",
                                          "SetLevel", "SetCode", "SetText", "AddInfo"}
                       /\ Result(hist[j].post) = Result(hist[j].pre)

\* a value and an error that outlived two calls which changed the Outcome
C19_Witness ==
    \E i \in TryCalls :
        /\ hist[i].ret # NULL
        /\ Result(hist[i].post) = <<IntVal("17"), ErrVal("test")>>
        /\ Cardinality(CallsOn(i)) = 2
        /\ \A j \in CallsOn(i) : hist[j].post # hist[j].pre
        /\ Result(heap[hist[i].ret]) = <<IntVal("17"), ErrVal("test")>>

\* C20: SetCode(c) leaves the receiver with code c and SetText(t) with text t, for
\* every argument and at every level, each changes no other field, and each returns
\* its receiver.
C20_SetCodeSetTextFrame ==
    \A i \in DOMAIN hist :
        LET c == hist[i]
        IN  /\ c.op = "SetCode" =>
                   /\ Code(c.post) = c.arg
                   /\ c.post = [c.pre EXCEPT !.code = c.arg]
                   /\ c.ret = c.recv
            /\ c.op = "SetText" =>
                   /\ Text(c.post) = c.arg
                   /\ c.post = [c.pre EXCEPT !.text = c.arg]
                   /\ c.ret = c.recv

\* a code cleared and a text emptied on an Outcome that is not at OK
C20_Witness ==
    \E i, j \in DOMAIN hist :
        /\ hist[i].op = "SetCode" /\ hist[i].arg = 0
        /\ Level(hist[i].pre) # OK /\ Code(hist[i].pre) # 0 /\ Code(hist[i].post) = 0
        /\ Len(Info(hist[i].post)) > 0
        /\ hist[j].op = "SetText" /\ hist[j].arg = ""
        /\ Level(hist[j].pre) # OK /\ Text(hist[j].pre) # "" /\ Text(hist[j].post) = ""

(* ------------------- frames of the level transitions ------------------ *)

\* a call of Catch with a handler that only reads, of KeepCalm, Escalate or Log
LevelOnly(c) ==
    \/ c.op \in {"KeepCalm", "Escalate", "Log"}
    \/ c.op = "Catch" /\ c.arg = "inspect"

\* the calls on the Outcome of the Try call i that only such calls came before
LevelOnlyCallsOn(i) ==
    {j \in CallsOn(i) : \A k \in CallsOn(i) : k <= j => LevelOnly(hist[k])}

\* the fields other than the level are as they were, and the receiver is returned
SameButLevel(c) ==
    /\ c.post = [c.pre EXCEPT !.level = c.post.level]
    /\ heap[c.recv].val = c.pre.val /\ heap[c.recv].err = c.pre.err
    /\ c.ret = c.recv

ErrorWithPanicCode(o) == Text(o) \o " (code: 0x" \o Sprintf04x(ERR_TRY_PANIC) \o ")"

\* C21: on the Outcome Try returns for a callable that panicked, Catch with a handler
\* that only reads, KeepCalm, Escalate and Log leave code, text, info, value and error
\* as they were, and after KeepCalm or Escalate Error() is the text followed by the
\* suffix of code ERR_TRY_PANIC. Fails for panic(nil) where recover() returns nil.
C21_LevelOnlyFrame ==
    \A i \in TryCalls :
        (hist[i].arg.type \in Recognized /\ hist[i].arg.panics /\ hist[i].ret # NULL) =>
            \A j \in LevelOnlyCallsOn(i) :
                /\ SameButLevel(hist[j])
                /\ hist[j].op \in {"KeepCalm", "Escalate"} =>
                       Error(hist[j].post) = ErrorWithPanicCode(hist[j].post)

\* The same for every Outcome that Try returned at PANIC, which are the panics that
\* recover() reported.
C21_LevelOnlyFrameAtPanic ==
    \A i \in TryCalls :
        (hist[i].ret # NULL /\ Level(hist[i].post) = PANIC) =>
            \A j \in LevelOnlyCallsOn(i) :
                /\ SameButLevel(hist[j])
                /\ hist[j].op \in {"KeepCalm", "Escalate"} =>
                       /\ Error(hist[j].post) = ErrorWithPanicCode(hist[j].post)
                       /\ Level(hist[j].post) # Level(hist[i].post)
                              \/ \E k \in CallsOn(i) : k < j

(* --------------------------- stack trimming --------------------------- *)

AddStackCalls == {i \in DOMAIN hist : hist[i].op = "addInfo"}

\* the positions of the newlines of a capture, and the n-th of them
Newlines(b) == {k \in 1..Len(b) : SubSeq(b, k, k) = "\n"}
NthNewline(b, n) == CHOOSE k \in Newlines(b) : Cardinality({m \in Newlines(b) : m <= k}) = n

\* C22: with skip depth d, a capture with at least 2d+1 newlines is stored as its first
\* line, newline included, followed by what comes after the (2d+1)-th newline, so the
\* 2d lines after the header are dropped; a capture with fewer newlines is stored whole.
C22_StackTrimming ==
    \A i \in AddStackCalls :
        LET b == hist[i].arg.buffer
            d == hist[i].arg.calldepth
        IN  /\ Info(hist[i].post) = <<hist[i].ret>>
            /\ IF Cardinality(Newlines(b)) >= 2 * d + 1
               THEN hist[i].ret = SubSeq(b, 1, NthNewline(b, 1))
                                  \o SubSeq(b, NthNewline(b, 2 * d + 1) + 1, Len(b))
               ELSE hist[i].ret = b

\* depth 2, as at every call site: header, four lines dropped, a rest kept
C22_Witness ==
    \E i \in AddStackCalls :
        /\ hist[i].arg.calldepth = 2
        /\ hist[i].arg.buffer = "x\n\n\n\n\nx"
        /\ hist[i].ret = "x\nx"

(* ------------------------- the set of levels -------------------------- *)

\* C23: the level of every Outcome, whether Try returned it or it was built with zero
\* level, is OK, ERROR, PANIC or FATAL after every call, whatever level SetLevel was
\* given; so Log on an Outcome that is not at OK always calls the logger, once.
C23_LevelInClosedSet ==
    /\ \A o \in Refs : Level(heap[o]) \in Levels /\ levelName(Level(heap[o])) # "?"
    /\ \A i \in DOMAIN hist :
           /\ Level(hist[i].pre) \in Levels
           /\ Level(hist[i].post) \in Levels
           /\ hist[i].op = "Log" =>
                  (Level(hist[i].pre) # OK <=> Len(hist[i].calls) = 1)

\* a level outside the set refused on an Outcome at PANIC, which Log then dispatched
C23_Witness ==
    \E i, j \in DOMAIN hist :
        /\ i < j /\ hist[i].recv = hist[j].recv
        /\ hist[i].op = "SetLevel" /\ hist[i].arg \notin Levels
        /\ Level(hist[i].pre) = PANIC /\ Level(hist[i].post) = PANIC
        /\ hist[j].op = "Log" /\ hist[j].calls = <<Call("Panic", hist[j].recv)>>

(* ------------------- concurrent KeepCalm and Escalate ----------------- *)

Returned(o) == \A m \in Racers : thr[o][m].pc = "return"

\* C24: when KeepCalm and Escalate run in two goroutines on one Outcome at PANIC with no
\* synchronization, then in every interleaving of their loads and stores the level is
\* ERROR or FATAL once both have returned, never PANIC, OK or any other value (and it
\* is PANIC, ERROR or FATAL at every moment before).
C24_RaceEndsAtErrorOrFatal ==
    \A o \in DOMAIN thr :
        /\ Level(heap[o]) \in {PANIC, ERROR, FATAL}
        /\ Returned(o) => Level(heap[o]) \in {ERROR, FATAL}
        /\ Level(heap[o]) = PANIC <=> \A m \in Racers : thr[o][m].pc # "return"

\* both results, from equal Outcomes: in each pair both goroutines loaded PANIC and
\* stored; the first Outcome ended at ERROR, the second at FATAL
C24_Witness ==
    /\ DOMAIN thr = 1..2
    /\ Returned(1) /\ Returned(2)
    /\ \A o \in 1..2, m \in Racers : thr[o][m].seen = <<PANIC>>
    /\ Level(heap[1]) = ERROR
    /\ Level(heap[2]) = FATAL

====
